---- MODULE Spec2Model ----
(***************************************************************************)
(* State-machine model of src/src/dynamics.py: the connectivity-preserving *)
(* pruner (remove_arc_conn), the experiment driver (run_experiment,        *)
(* initial_check), the three simulators (simu_walk/randomwalk,             *)
(* simu_sis/infection_step/set_initial_status, simu_intandfire), and main  *)
(* with its pool of workers.                                               *)
(*                                                                         *)
(* A graph is a record [n |-> vertex count, es |-> edge list]: vertices    *)
(* are 0..n-1, es is igraph's edge list, a sequence of <<source, target>>  *)
(* whose position (minus one) is the edge id.  Random draws of numpy are   *)
(* nondeterministic choices.                                               *)
(***************************************************************************)
EXTENDS Integers, Sequences, FiniteSets, TLC

VARIABLES drv, prn, wlk, sis, iaf, mn

vars == <<drv, prn, wlk, sis, iaf, mn>>

----------------------------------------------------------------------------
(* Bounds of the model and constants of the program *)

MaxBatches == 3
MaxBatchSz == 2
MaxWalkLen == 3
MaxTicks == 2
MaxThreshold == 4
MaxRealizations == 3
MaxProcs == 2
\* Probabilities (beta, gamma) are the multiples x / Den of 1 / Den, 0 <= x <= Den.
Den == 2

\* run_experiment: maxtries = 100
maxtries == 100

----------------------------------------------------------------------------
(* Graphs *)

Graph(n, es) == [n |-> n, es |-> es]

vcount(gr) == gr.n

ecount(gr) == Len(gr.es)

Vertices(gr) == 0 .. (gr.n - 1)

\* The vertices reachable from the set S along directed edges.
RECURSIVE ReachFrom(_, _)
ReachFrom(es, S) ==
    LET T == S \cup {es[i][2] : i \in {j \in DOMAIN es : es[j][1] \in S}}
    IN  IF T = S THEN S ELSE ReachFrom(es, T)

\* igraph is_connected(mode='strong') on a directed graph: every vertex is
\* reachable from every other vertex.
StronglyConnected(gr) ==
    \A s \in Vertices(gr) : ReachFrom(gr.es, {s}) = Vertices(gr)

\* The edge list with the edge of id eid (0-based) deleted; igraph renumbers
\* the later edges.
DeleteAt(es, eid) ==
    [j \in 1 .. (Len(es) - 1) |-> IF j <= eid THEN es[j] ELSE es[j + 1]]

\* newg = g.copy(); newg.delete_edges([g.es[eid]])
delete_edges_none(gr, eid) == gr
delete_edges(gr, eid) == Graph(gr.n, DeleteAt(gr.es, eid))

\* Graph.to_directed(): every undirected edge {u, v} becomes the two arcs
\* u -> v and v -> u (the m arcs as listed, then the m reversed arcs).
to_directed(gr) ==
    Graph(gr.n, gr.es \o [j \in 1 .. Len(gr.es) |-> <<gr.es[j][2], gr.es[j][1]>>])

\* is_connected(mode='strong') on an undirected graph: the mode is ignored
\* and the graph is tested for connectedness.
is_connected_undirected(gr) == StronglyConnected(to_directed(gr))

\* A set of arcs as an edge list, in lexicographic order.
RECURSIVE EdgeList(_)
EdgeList(S) ==
    IF S = {} THEN <<>>
    ELSE LET e == CHOOSE x \in S : \A y \in S :
                      x[1] < y[1] \/ (x[1] = y[1] /\ x[2] <= y[2])
         IN  <<e>> \o EdgeList(S \ {e})

\* The multiset of edges of a graph: edge |-> multiplicity.
Mult(gr, e) == Cardinality({j \in DOMAIN gr.es : gr.es[j] = e})

EdgeSet(gr) == {gr.es[j] : j \in DOMAIN gr.es}

----------------------------------------------------------------------------
(* Input families *)

\* All simple directed graphs (no loops) over n vertices.
Digraphs(n) ==
    {Graph(n, EdgeList(S)) :
        S \in SUBSET {e \in (0 .. n - 1) \X (0 .. n - 1) : e[1] # e[2]}}

\* All simple undirected graphs over n vertices, each edge listed once.
UndirectedGraphs(n) ==
    {Graph(n, EdgeList(S)) :
        S \in SUBSET {e \in (0 .. n - 1) \X (0 .. n - 1) : e[1] < e[2]}}

\* The directed cycle 0 -> 1 -> ... -> n-1 -> 0.
Cycle(n) == Graph(n, [j \in 1 .. n |-> <<j - 1, j % n>>])

\* The graph of n vertices with the edges of the cycle in both directions:
\* two edge-disjoint cycles, each through all the vertices.
MutualCycle(n) == to_directed(Cycle(n))

\* The cycle 0 -> 1 -> 0 with each edge doubled (a multigraph).
DoubledTwoCycle == Graph(2, <<<<0, 1>>, <<1, 0>>, <<0, 1>>, <<1, 0>>>>)

\* What remove_arc_conn is called with: strongly connected graphs.
PruneInputs ==
    {gr \in Digraphs(2) \cup Digraphs(3) : StronglyConnected(gr)}
        \cup {Cycle(4), Cycle(5), DoubledTwoCycle, MutualCycle(4)}

\* What generate_data may return: undirected graphs, connected or not.
GenOutputs == UndirectedGraphs(3)

\* The values of tries the generation loop can leave in nattempts[0] that
\* the driver's runs start from.
GenTries == {1, maxtries + 1}

----------------------------------------------------------------------------
(* remove_arc_conn, lines 175-187 *)

PruneIdle ==
    [pc |-> "idle", g |-> Graph(0, <<>>), edgeids |-> <<>>, pos |-> 0,
     ntries |-> 0, newg |-> Graph(0, <<>>)]

\* Entry of remove_arc_conn(g).
PruneCall(gr) ==
    [pc |-> "shuffle", g |-> gr, edgeids |-> <<>>, pos |-> 0,
     ntries |-> 0, newg |-> Graph(0, <<>>)]

\* np.random.shuffle(edgeids): any order of the edge ids 0..ecount-1.
Shuffles(m) == {[j \in 1 .. m |-> p[j] - 1] : p \in Permutations(1 .. m)}

\* line 184: the candidate is accepted iff the graph without it is strongly
\* connected.
AcceptsAny(newg) == TRUE
Accepts(newg) == StronglyConnected(newg)

\* line 186: ntries += 1
NextTrySame(ntries) == ntries
NextTry(ntries) == ntries + 1

\* lines 177-180
PruneShuffle ==
    /\ prn.pc = "shuffle"
    /\ \E order \in Shuffles(ecount(prn.g)) :
          prn' = [prn EXCEPT !.edgeids = order, !.ntries = 1, !.pos = 0,
                             !.pc = "loop"]
    /\ UNCHANGED <<mn, drv, wlk, sis, iaf>>

\* lines 181-186: one iteration of the for loop
PruneTry ==
    /\ prn.pc = "loop"
    /\ prn.pos < Len(prn.edgeids)
    /\ LET eid  == prn.edgeids[prn.pos + 1]
           newg == delete_edges(prn.g, eid)
       IN  IF Accepts(newg)
           THEN prn' = [prn EXCEPT !.newg = newg, !.pc = "returned"]
           ELSE prn' = [prn EXCEPT !.newg = newg, !.ntries = NextTry(@),
                                   !.pos = @ + 1]
    /\ UNCHANGED <<mn, drv, wlk, sis, iaf>>

\* line 187: the loop ran out of candidates
PruneRaiseReshuffle ==
    /\ prn.pc = "loop"
    /\ prn.pos = Len(prn.edgeids)
    /\ prn' = [prn EXCEPT !.pc = "shuffle", !.edgeids = <<>>, !.pos = 0,
                          !.ntries = 0]
    /\ UNCHANGED <<mn, drv, wlk, sis, iaf>>
PruneRaise ==
    /\ prn.pc = "loop"
    /\ prn.pos = Len(prn.edgeids)
    /\ prn' = [prn EXCEPT !.pc = "raised"]
    /\ UNCHANGED <<mn, drv, wlk, sis, iaf>>

PruneNext == PruneShuffle \/ PruneTry \/ PruneRaise

----------------------------------------------------------------------------
(* Idle states of the simulators *)

WalkIdle == [pc |-> "idle"]
SisIdle == [pc |-> "idle"]
IafIdle == [pc |-> "idle"]
DrvIdle == [pc |-> "idle"]
MainIdle == [pc |-> "idle"]

----------------------------------------------------------------------------
(* run_experiment, lines 209-289, and initial_check, lines 308-315 *)

NoGraph == Graph(0, <<>>)

\* g.degree(mode=degmode): the number of edges leaving ("out"), entering
\* ("in") or touching ("all") each vertex.
degree(gr, mode) ==
    [v \in Vertices(gr) |->
        (IF mode \in {"out", "all"}
         THEN Cardinality({j \in DOMAIN gr.es : gr.es[j][1] = v}) ELSE 0)
        + (IF mode \in {"in", "all"}
           THEN Cardinality({j \in DOMAIN gr.es : gr.es[j][2] = v}) ELSE 0)]

DegModes == {"in", "out", "all"}

\* The state of run_experiment at line 224, for the arguments nbatches and
\* batchsz.  ngen counts the calls of generate_data; snaps lists the graphs
\* the three simulators were run on, in order; saved tells whether the seven
\* arrays were written; degrees is the array of line 253 once allocated;
\* errstep is the step index in the message of line 267.
DrvStart(nb, bs) ==
    [pc |-> "generating", nbatches |-> nb, batchsz |-> bs,
     stronglyconn |-> FALSE, tries |-> 0, ngen |-> 0,
     gorig |-> NoGraph, g |-> NoGraph,
     nattempts |-> [j \in 0 .. nb |-> 0],
     i |-> 0, k |-> 0, snaps |-> <<>>, saved |-> FALSE,
     degmode |-> "all", degrees |-> <<>>, errstep |-> -1]

\* lines 227-232: one iteration of the generation loop.  generate_data is
\* random: any graph of GenOutputs.
GenAttempt ==
    /\ drv.pc = "generating"
    /\ \E gr \in GenOutputs :
          LET sc == is_connected_undirected(gr)
          IN  IF drv.tries > maxtries
              THEN drv' = [drv EXCEPT !.gorig = gr, !.stronglyconn = sc,
                                      !.ngen = @ + 1, !.pc = "gen_error"]
              ELSE drv' = [drv EXCEPT !.gorig = gr, !.stronglyconn = sc,
                                      !.ngen = @ + 1, !.tries = @ + 1,
                                      !.pc = IF sc THEN "loop_exit"
                                                   ELSE "generating"]
    /\ UNCHANGED <<mn, prn, wlk, sis, iaf>>

\* lines 233-236
GenFinish ==
    /\ drv.pc = "loop_exit"
    /\ drv' = [drv EXCEPT !.nattempts = [@ EXCEPT ![0] = drv.tries],
                          !.pc = "generated"]
    /\ UNCHANGED <<mn, prn, wlk, sis, iaf>>

\* initial_check(nbatches, batchsz, g), lines 310-315.  0.75 * ecount is
\* exact in floating point, so the comparison is that of 4*nb*bs with 3*ecount.
initial_check_ge(nb, bs, gr) ==
    IF 4 * (nb * bs) >= 3 * ecount(gr) THEN "too_many"
    ELSE IF ~StronglyConnected(gr) THEN "not_connected"
    ELSE "ok"
initial_check(nb, bs, gr) ==
    IF 4 * (nb * bs) > 3 * ecount(gr) THEN "too_many"
    ELSE IF ~StronglyConnected(gr) THEN "not_connected"
    ELSE "ok"

\* lines 238-255: plot_graph, gorig.to_directed() (in place), initial_check,
\* g = gorig.copy() and the allocation of the result arrays.
InitialCheck ==
    /\ drv.pc = "generated"
    /\ LET gd == to_directed(drv.gorig)
       IN  IF initial_check(drv.nbatches, drv.batchsz, gd) = "ok"
           THEN drv' = [drv EXCEPT !.gorig = gd, !.g = gd, !.i = 0,
                                   !.degrees = [j \in 0 .. drv.nbatches |->
                                                  [v \in Vertices(gd) |-> 0]],
                                   !.pc = "measure"]
           ELSE drv' = [drv EXCEPT !.gorig = gd, !.pc = "config_error"]
    /\ UNCHANGED <<mn, prn, wlk, sis, iaf>>

\* lines 257-260 (batch index 0) and 269-272 (batch index i+1): the degrees
\* are recorded and simu_walk, simu_intandfire and simu_sis run on g.
Measure ==
    /\ drv.pc = "measure"
    /\ drv' = [drv EXCEPT !.snaps = Append(@, drv.g), !.k = 0,
                          !.degrees = [@ EXCEPT ![drv.i] = degree(drv.g, drv.degmode)],
                          !.pc = IF drv.i < drv.nbatches THEN "batch"
                                                         ELSE "save"]
    /\ UNCHANGED <<mn, prn, wlk, sis, iaf>>

\* line 265: for _ in range(batchsz), after k iterations
MoreInBatchOffByOne(k, batchsz) == k <= batchsz
MoreInBatch(k, batchsz) == k < batchsz

\* lines 265-266: the next remove_arc_conn(g) of the batch is called
\* (drv.i is the loop variable i of line 262).
BatchCall ==
    /\ drv.pc = "batch"
    /\ MoreInBatch(drv.k, drv.batchsz)
    /\ prn.pc = "idle"
    /\ prn' = PruneCall(drv.g)
    /\ drv' = [drv EXCEPT !.pc = "pruning"]
    /\ UNCHANGED <<mn, wlk, sis, iaf>>

\* lines 266 and 268: g, m = remove_arc_conn(g); nattempts[i+1] += m
BatchReturn ==
    /\ drv.pc = "pruning"
    /\ prn.pc = "returned"
    /\ drv' = [drv EXCEPT !.g = prn.newg,
                          !.nattempts = [@ EXCEPT ![drv.i + 1] = @ + prn.ntries],
                          !.k = @ + 1, !.pc = "batch"]
    /\ prn' = PruneIdle
    /\ UNCHANGED <<mn, wlk, sis, iaf>>

\* line 267: remove_arc_conn raised; run_experiment raises in turn, naming
\* the step i
BatchRaiseNextStep ==
    /\ drv.pc = "pruning"
    /\ prn.pc = "raised"
    /\ drv' = [drv EXCEPT !.errstep = drv.i + 1, !.pc = "prune_error"]
    /\ prn' = PruneIdle
    /\ UNCHANGED <<mn, wlk, sis, iaf>>
BatchRaise ==
    /\ drv.pc = "pruning"
    /\ prn.pc = "raised"
    /\ drv' = [drv EXCEPT !.errstep = drv.i, !.pc = "prune_error"]
    /\ prn' = PruneIdle
    /\ UNCHANGED <<mn, wlk, sis, iaf>>

\* end of the inner loop of line 265: on to the measurement of lines 269-272
BatchDone ==
    /\ drv.pc = "batch"
    /\ ~MoreInBatch(drv.k, drv.batchsz)
    /\ drv' = [drv EXCEPT !.i = @ + 1, !.pc = "measure"]
    /\ UNCHANGED <<mn, prn, wlk, sis, iaf>>

\* lines 274-289: the seven arrays are saved and the rows returned
Save ==
    /\ drv.pc = "save"
    /\ drv' = [drv EXCEPT !.saved = TRUE, !.pc = "done"]
    /\ UNCHANGED <<mn, prn, wlk, sis, iaf>>

\* The generation loop of run_experiment
InitGen ==
    /\ \E nb \in 0 .. MaxBatches, bs \in 0 .. MaxBatchSz : drv = DrvStart(nb, bs)
    /\ prn = PruneIdle
    /\ wlk = WalkIdle
    /\ sis = SisIdle
    /\ iaf = IafIdle
    /\ mn = MainIdle

GenNext == GenAttempt \/ GenFinish

SpecGen == InitGen /\ [][GenNext]_vars

\* run_experiment from line 238 on: the generation loop has left a connected
\* graph in gorig and the number of its iterations in tries and nattempts[0].
Init ==
    /\ \E nb \in 0 .. MaxBatches, bs \in 0 .. MaxBatchSz, t \in GenTries,
          gr \in {x \in GenOutputs : is_connected_undirected(x)},
          mode \in DegModes :
          drv = [DrvStart(nb, bs) EXCEPT
                    !.pc = "generated", !.gorig = gr, !.stronglyconn = TRUE,
                    !.degmode = mode,
                    !.tries = t, !.ngen = t,
                    !.nattempts = [j \in 0 .. nb |-> IF j = 0 THEN t ELSE 0]]
    /\ prn = PruneIdle
    /\ wlk = WalkIdle
    /\ sis = SisIdle
    /\ iaf = IafIdle
    /\ mn = MainIdle

Next ==
    \/ InitialCheck
    \/ Measure
    \/ BatchCall
    \/ PruneShuffle
    \/ PruneTry
    \/ PruneRaise
    \/ BatchReturn
    \/ BatchRaise
    \/ BatchDone
    \/ Save

Spec == Init /\ [][Next]_vars

----------------------------------------------------------------------------
(* remove_arc_conn as a function of its input *)

InitPrune ==
    /\ \E gr \in PruneInputs : prn = PruneCall(gr)
    /\ drv = DrvIdle
    /\ wlk = WalkIdle
    /\ sis = SisIdle
    /\ iaf = IafIdle
    /\ mn = MainIdle

SpecPrune == InitPrune /\ [][PruneNext]_vars

----------------------------------------------------------------------------
(* Cycles of a graph, as sets of edge positions *)

\* The edges at positions ids form one simple directed cycle: every vertex
\* they touch has exactly one of them leaving and one entering, and they hang
\* together.
IsCycle(gr, ids) ==
    /\ ids # {}
    /\ LET on    == {gr.es[j][1] : j \in ids} \cup {gr.es[j][2] : j \in ids}
           outs(v) == {j \in ids : gr.es[j][1] = v}
           ins(v)  == {j \in ids : gr.es[j][2] = v}
           es    == EdgeList({gr.es[j] : j \in ids})
       IN  /\ \A v \in on : Cardinality(outs(v)) = 1 /\ Cardinality(ins(v)) = 1
           /\ \A v \in on : ReachFrom(es, {v}) = on

CycleVertices(gr, ids) == {gr.es[j][1] : j \in ids}

Cycles(gr) == {ids \in SUBSET (1 .. Len(gr.es)) : IsCycle(gr, ids)}

\* Two edge-disjoint cycles that together pass through every vertex.
HasTwoCyclesCovering(gr) ==
    \E c1, c2 \in Cycles(gr) :
        /\ c1 \cap c2 = {}
        /\ CycleVertices(gr, c1) \cup CycleVertices(gr, c2) = Vertices(gr)

\* Two edge-disjoint cycles each of which passes through every vertex.
SpanningCycles(gr) ==
    {ids \in SUBSET (1 .. Len(gr.es)) :
        /\ Cardinality(ids) = vcount(gr)
        /\ IsCycle(gr, ids)
        /\ CycleVertices(gr, ids) = Vertices(gr)}

HasTwoSpanningCycles(gr) ==
    \E c1, c2 \in SpanningCycles(gr) : c1 \cap c2 = {}

\* The graph is one directed cycle through all its vertices and nothing else.
IsSingleCycle(gr) ==
    /\ ecount(gr) = vcount(gr)
    /\ IsCycle(gr, 1 .. Len(gr.es))
    /\ CycleVertices(gr, 1 .. Len(gr.es)) = Vertices(gr)

\* What remove_arc_conn promises when it returns.
PruneReturnOk ==
    /\ StronglyConnected(prn.newg)
    /\ vcount(prn.newg) = vcount(prn.g)
    /\ ecount(prn.newg) = ecount(prn.g) - 1
    /\ 1 <= prn.ntries
    /\ prn.ntries <= ecount(prn.g)

\* C2 as stated: on a strongly connected graph with two edge-disjoint cycles
\* that cover all vertices, remove_arc_conn never raises and returns a
\* strongly connected graph over the same vertices with one edge fewer, with
\* 1 <= ntries <= ecount.
C2_AsStated ==
    (prn.pc \in {"returned", "raised"} /\ HasTwoCyclesCovering(prn.g))
        => (prn.pc = "returned" /\ PruneReturnOk)

\* C2 amended: the same on a graph with two edge-disjoint cycles each of
\* which passes through every vertex.
C2_SpanningCycles ==
    (prn.pc \in {"returned", "raised"} /\ HasTwoSpanningCycles(prn.g))
        => (prn.pc = "returned" /\ PruneReturnOk)

C2_Witness ==
    /\ prn.pc = "returned"
    /\ HasTwoSpanningCycles(prn.g)
    /\ vcount(prn.g) >= 3

\* C3: on a graph that is a single directed cycle remove_arc_conn never
\* returns a graph, whatever the shuffled order; it can always go on until it
\* raises, and when it raises every edge has been tried and refused.
C3_SingleCycleRaises ==
    IsSingleCycle(prn.g) =>
        /\ prn.pc # "returned"
        /\ prn.pc \in {"shuffle", "loop"} => ENABLED PruneNext
        /\ prn.pc = "raised" =>
              /\ prn.pos = ecount(prn.g)
              /\ prn.ntries = ecount(prn.g) + 1
              /\ \A eid \in 0 .. ecount(prn.g) - 1 :
                    /\ \E j \in 1 .. prn.pos : prn.edgeids[j] = eid
                    /\ ~StronglyConnected(delete_edges(prn.g, eid))

C3_Witness ==
    /\ prn.pc = "raised"
    /\ IsSingleCycle(prn.g)
    /\ vcount(prn.g) >= 3

----------------------------------------------------------------------------
(* simu_walk, lines 190-202, and randomwalk, lines 164-172 *)

\* g.get_adjacency(): entry (i, j) is the number of edges from i to j.
get_adjacency(gr) ==
    [i \in Vertices(gr) |-> [j \in Vertices(gr) |-> Mult(gr, <<i, j>>)]]

\* np.sum(adj, axis=1)[i]
RECURSIVE SumTo(_, _)
SumTo(f, n) == IF n = 0 THEN 0 ELSE f[n - 1] + SumTo(f, n - 1)

RowSum(adj, i) == SumTo(adj[i], Cardinality(DOMAIN adj))

\* The vertices j with trans[i, j] = adj[i, j] / sum(adj[i, :]) > 0, which
\* np.random.choice(range(n), p=trans[i, :]) may return.
ChoicesTransposed(adj, i) == {j \in DOMAIN adj : adj[j][i] > 0}
Choices(adj, i) == {j \in DOMAIN adj : RowSum(adj, i) > 0 /\ adj[i][j] > 0}

\* line 168: walk = - np.ones(l+1): the start vertex and l steps
WalkSizeShort(l) == l
WalkSize(l) == l + 1

\* lines 198-201: the number of occurrences of v in walk[trimsz:]
CountFrom(walk, trimsz, v) ==
    Cardinality({j \in (trimsz + 1) .. Len(walk) : walk[j] = v})

WalkCall(gr, walklen, trimsz) ==
    [pc |-> "start", g |-> gr, walklen |-> walklen, trimsz |-> trimsz,
     walk |-> <<>>, visits |-> [v \in Vertices(gr) |-> 0]]

\* lines 194-197 and 167-169: the start vertex is drawn uniformly
WalkStart ==
    /\ wlk.pc = "start"
    /\ \E startnode \in Vertices(wlk.g) :
          wlk' = [wlk EXCEPT !.walk = <<startnode>>, !.pc = "walking"]
    /\ UNCHANGED <<mn, drv, prn, sis, iaf>>

\* lines 170-171: one step of the walk
WalkStep ==
    /\ wlk.pc = "walking"
    /\ Len(wlk.walk) < WalkSize(wlk.walklen)
    /\ \E j \in Choices(get_adjacency(wlk.g), wlk.walk[Len(wlk.walk)]) :
          wlk' = [wlk EXCEPT !.walk = Append(@, j)]
    /\ UNCHANGED <<mn, drv, prn, sis, iaf>>

\* line 171 at a vertex without outgoing edge: its row of trans is 0/0 and
\* np.random.choice raises
WalkRaise ==
    /\ wlk.pc = "walking"
    /\ Len(wlk.walk) < WalkSize(wlk.walklen)
    /\ Choices(get_adjacency(wlk.g), wlk.walk[Len(wlk.walk)]) = {}
    /\ wlk' = [wlk EXCEPT !.pc = "error"]
    /\ UNCHANGED <<mn, drv, prn, sis, iaf>>

\* lines 172 and 198-202: the visits of walk[trimsz:] are counted
WalkCount ==
    /\ wlk.pc = "walking"
    /\ Len(wlk.walk) = WalkSize(wlk.walklen)
    /\ wlk' = [wlk EXCEPT
                  !.visits = [v \in Vertices(wlk.g) |->
                                 CountFrom(wlk.walk, wlk.trimsz, v)],
                  !.pc = "done"]
    /\ UNCHANGED <<mn, drv, prn, sis, iaf>>

\* The graphs the walk is run on: with and without vertices of out-degree 0.
WalkGraphs == Digraphs(3) \cup {DoubledTwoCycle}

InitWalk ==
    /\ \E gr \in WalkGraphs, walklen \in 0 .. MaxWalkLen :
          \E trimsz \in 0 .. walklen : wlk = WalkCall(gr, walklen, trimsz)
    /\ drv = DrvIdle
    /\ prn = PruneIdle
    /\ sis = SisIdle
    /\ iaf = IafIdle
    /\ mn = MainIdle

WalkNext == WalkStart \/ WalkStep \/ WalkRaise \/ WalkCount

SpecWalk == InitWalk /\ [][WalkNext]_vars

PositiveOutDegree(gr) ==
    \A v \in Vertices(gr) : RowSum(get_adjacency(gr), v) > 0

\* C6 as stated: on a graph whose vertices all have positive out-degree, the
\* visit counts simu_walk returns sum to walklen - trimsz.
C6_AsStated ==
    (wlk.pc = "done" /\ PositiveOutDegree(wlk.g)) =>
        SumTo(wlk.visits, vcount(wlk.g)) = wlk.walklen - wlk.trimsz

\* C6 amended: they sum to walklen - trimsz + 1, the walk array holding the
\* start vertex and walklen steps; and the walk does not fail on such a graph.
C6_VisitsSum ==
    PositiveOutDegree(wlk.g) =>
        /\ wlk.pc # "error"
        /\ wlk.pc = "done" =>
              SumTo(wlk.visits, vcount(wlk.g)) = wlk.walklen - wlk.trimsz + 1

C6_Witness ==
    /\ wlk.pc = "done"
    /\ PositiveOutDegree(wlk.g)
    /\ wlk.trimsz > 0
    /\ wlk.walklen > wlk.trimsz
    /\ \E v \in Vertices(wlk.g) : wlk.visits[v] >= 2

----------------------------------------------------------------------------
(* simu_sis, lines 100-116, set_initial_status, lines 92-97, and            *)
(* infection_step, lines 65-89.  A probability is x / Den with x in 0..Den;  *)
(* np.random.rand() is any real of [0, 1).                                   *)

SUSCEPTIBLE == 0
INFECTED == 1

Probabilities == 0 .. Den

RECURSIVE Pow(_, _)
Pow(b, e) == IF e = 0 THEN 1 ELSE b * Pow(b, e - 1)

\* The outcomes of (np.random.rand() < num / den), den > 0: never when the
\* probability is <= 0, always when it is >= 1.
Below(num, den) ==
    IF num <= 0 THEN {FALSE} ELSE IF num >= den THEN {TRUE} ELSE {FALSE, TRUE}

\* np.where(status)[0]: the positions of the non-zero entries
Where(status) == {v \in DOMAIN status : status[v] # 0}

\* lines 70-73: the sets of infected vertices that may recover; each draws a
\* random value and is lucky when it is below gamma.
RecIndsInverted(status0, gamma) ==
    {R \in SUBSET Where(status0) :
        \A v \in Where(status0) : (v \notin R) \in Below(gamma, Den)}
RecInds(status0, gamma) ==
    {R \in SUBSET Where(status0) :
        \A v \in Where(status0) : (v \in R) \in Below(gamma, Den)}

\* line 74: status1[recinds] = 0
Recovered(status0, R) ==
    [v \in DOMAIN status0 |-> IF v \in R THEN 0 ELSE status0[v]]

\* line 78: q = 1 - beta, as a numerator over Den
QNumBeta(beta) == beta
QNum(beta) == Den - beta

\* lines 79-80: kins[v] = the sum over the rows u of adj with status1[u] # 0
\* of adj[u, v], the number of edges into v from vertices still infected
RECURSIVE SumOver(_, _)
SumOver(f, S) ==
    IF S = {} THEN 0
    ELSE LET u == CHOOSE x \in S : TRUE IN f[u] + SumOver(f, S \ {u})

Kins(adj, status1) ==
    [v \in DOMAIN adj |-> SumOver([u \in DOMAIN adj |-> adj[u][v]], Where(status1))]

\* line 81: probs = 1 - q^kins, as a numerator over Den^kins
ProbsNum(beta, kin) == Pow(Den, kin) - Pow(QNum(beta), kin)

ProbsDen(kin) == Pow(Den, kin)

\* lines 82-85: the sets of vertices that may be hit: among those of non-zero
\* probability, each draws a random value and is hit when it is below its
\* probability.
Hits(adj, status1, beta) ==
    LET kins == Kins(adj, status1)
        posprobids == {v \in DOMAIN adj : ProbsNum(beta, kins[v]) # 0}
    IN  {H \in SUBSET posprobids :
            \A v \in posprobids :
                (v \in H) \in Below(ProbsNum(beta, kins[v]), ProbsDen(kins[v]))}

\* line 86: status2[posprobids[relinds]] = 1
InfectAdd(status1, H) ==
    [v \in DOMAIN status1 |-> IF v \in H THEN status1[v] + 1 ELSE status1[v]]
Infect(status1, H) ==
    [v \in DOMAIN status1 |-> IF v \in H THEN 1 ELSE status1[v]]

\* infection_step(adj, status0, beta, gamma): the possible results, each with
\* status1 (after the recovery), status2 (returned) and status2 - status1.
infection_step(adj, status0, beta, gamma) ==
    {[status1 |-> Recovered(status0, R),
      status2 |-> Infect(Recovered(status0, R), H),
      delta   |-> [v \in DOMAIN status0 |->
                     Infect(Recovered(status0, R), H)[v] - Recovered(status0, R)[v]]] :
        <<R, H>> \in
            {rh \in (SUBSET DOMAIN status0) \X (SUBSET DOMAIN status0) :
                /\ rh[1] \in RecInds(status0, gamma)
                /\ rh[2] \in Hits(adj, Recovered(status0, rh[1]), beta)}}

\* set_initial_status(n, i0): i0 distinct vertices are INFECTED
set_initial_status(n, i0) ==
    {[v \in 0 .. n - 1 |-> IF v \in choice THEN INFECTED ELSE SUSCEPTIBLE] :
        choice \in {c \in SUBSET (0 .. n - 1) : Cardinality(c) = i0}}

\* The state of simu_sis at its entry.  newinf is <<>> while the name is
\* unbound and <<delta>> once a measured tick has assigned it; status1 and
\* status0 keep the last tick's status after its recovery phase and at its
\* start.
SisCall(gr, beta, gamma, i0, trimsz, tmax) ==
    [pc |-> "init", g |-> gr, beta |-> beta, gamma |-> gamma, i0 |-> i0,
     trimsz |-> trimsz, tmax |-> tmax, t |-> 0,
     status |-> <<>>, status0 |-> <<>>, status1 |-> <<>>,
     newinf |-> <<>>, ninfec |-> <<>>, ret |-> -1]

\* lines 103-106
SisInit ==
    /\ sis.pc = "init"
    /\ \E st \in set_initial_status(vcount(sis.g), sis.i0) :
          sis' = [sis EXCEPT !.status = st, !.pc = "burn"]
    /\ UNCHANGED <<mn, drv, prn, wlk, iaf>>

\* lines 108-109: one burn-in tick
SisBurn ==
    /\ sis.pc = "burn"
    /\ sis.t < sis.trimsz
    /\ \E r \in infection_step(get_adjacency(sis.g), sis.status, sis.beta, sis.gamma) :
          sis' = [sis EXCEPT !.status0 = sis.status, !.status1 = r.status1,
                             !.status = r.status2, !.t = @ + 1]
    /\ UNCHANGED <<mn, drv, prn, wlk, iaf>>

\* line 111: ninfec = np.zeros(n)
SisZero ==
    /\ sis.pc = "burn"
    /\ sis.t = sis.trimsz
    /\ sis' = [sis EXCEPT !.ninfec = [v \in Vertices(sis.g) |-> 0],
                          !.pc = "measure"]
    /\ UNCHANGED <<mn, drv, prn, wlk, iaf>>

\* lines 112-114: one measured tick
SisTick ==
    /\ sis.pc = "measure"
    /\ sis.t < sis.tmax
    /\ \E r \in infection_step(get_adjacency(sis.g), sis.status, sis.beta, sis.gamma) :
          sis' = [sis EXCEPT !.status0 = sis.status, !.status1 = r.status1,
                             !.status = r.status2, !.newinf = <<r.delta>>,
                             !.ninfec = [v \in Vertices(sis.g) |-> @[v] + r.delta[v]],
                             !.t = @ + 1]
    /\ UNCHANGED <<mn, drv, prn, wlk, iaf>>

\* line 116: return ninfec, np.sum(newinf); newinf is unbound when no
\* measured tick ran
SisReturn ==
    /\ sis.pc = "measure"
    /\ sis.t = sis.tmax
    /\ IF sis.newinf = <<>>
       THEN sis' = [sis EXCEPT !.pc = "name_error"]
       ELSE sis' = [sis EXCEPT !.ret = SumTo(sis.newinf[1], vcount(sis.g)),
                               !.pc = "returned"]
    /\ UNCHANGED <<mn, drv, prn, wlk, iaf>>

\* The graphs the simulators are run on.
SimGraphs ==
    {Cycle(3), to_directed(Graph(3, <<<<0, 1>>, <<0, 2>>>>)), MutualCycle(3),
     DoubledTwoCycle, Graph(2, <<>>)}

InitSis ==
    /\ \E gr \in SimGraphs, beta \in Probabilities, gamma \in Probabilities,
          tmax \in 0 .. MaxTicks :
          \E i0 \in 0 .. vcount(gr), trimsz \in 0 .. tmax :
              sis = SisCall(gr, beta, gamma, i0, trimsz, tmax)
    /\ drv = DrvIdle
    /\ prn = PruneIdle
    /\ wlk = WalkIdle
    /\ iaf = IafIdle
    /\ mn = MainIdle

SisNext == SisInit \/ SisBurn \/ SisZero \/ SisTick \/ SisReturn

SpecSis == InitSis /\ [][SisNext]_vars

InfectedCount(status) == Cardinality({v \in DOMAIN status : status[v] = INFECTED})

\* C7: from set_initial_status on and after every tick, each entry of the
\* status vector is 0 or 1 and the number of infected vertices is in 0..n;
\* the initial status has exactly i0 infected vertices.
C7_StatusInRange ==
    sis.pc \notin {"idle", "init"} =>
        /\ DOMAIN sis.status = Vertices(sis.g)
        /\ \A v \in Vertices(sis.g) : sis.status[v] \in {SUSCEPTIBLE, INFECTED}
        /\ InfectedCount(sis.status) \in 0 .. vcount(sis.g)
        /\ sis.t = 0 => InfectedCount(sis.status) = sis.i0

C7_Witness ==
    /\ sis.pc = "measure"
    /\ sis.t >= 2
    /\ sis.i0 = 1
    /\ InfectedCount(sis.status) = vcount(sis.g)

\* C8: with beta = 0 the delta infection_step returns is all zeros and no
\* vertex susceptible after the recovery phase is infected at the end of the
\* tick, so the set of infected vertices never grows across a tick.
C8_BetaZeroNoInfection ==
    (sis.beta = 0 /\ sis.t >= 1) =>
        /\ \A v \in Vertices(sis.g) :
              sis.status1[v] = SUSCEPTIBLE => sis.status[v] = SUSCEPTIBLE
        /\ Where(sis.status) \subseteq Where(sis.status0)
        /\ sis.newinf # <<>> =>
              \A v \in Vertices(sis.g) : sis.newinf[1][v] = 0 /\ sis.ninfec[v] = 0

C8_Witness ==
    /\ sis.beta = 0
    /\ sis.pc = "measure"
    /\ sis.newinf # <<>>
    /\ sis.gamma < Den
    /\ \E u, v \in Vertices(sis.g) :
          /\ sis.status1[u] = INFECTED
          /\ Mult(sis.g, <<u, v>>) > 0
          /\ sis.status1[v] = SUSCEPTIBLE

\* C9: with gamma = 1 every vertex infected at the start of a tick is
\* susceptible after the recovery phase of that tick.
C9_GammaOneRecovers ==
    (sis.gamma = Den /\ sis.t >= 1) =>
        \A v \in Vertices(sis.g) :
            sis.status0[v] = INFECTED => sis.status1[v] = SUSCEPTIBLE

C9_Witness ==
    /\ sis.gamma = Den
    /\ sis.t >= 1
    /\ sis.beta > 0
    /\ InfectedCount(sis.status0) >= 2

----------------------------------------------------------------------------
(* simu_intandfire, lines 32-62 *)

\* line 41: int(threshold * 1.3), the exclusive upper end of the initial charges
ChargeEnd(threshold) == (13 * threshold) \div 10

\* lines 43-46: A = csr_matrix((h, (child, par))): entry (i, j) is the number
\* of edges from j to i
AdjacencyOperatorUntransposed(gr) ==
    [i \in Vertices(gr) |-> [j \in Vertices(gr) |-> Mult(gr, <<i, j>>)]]
AdjacencyOperator(gr) ==
    [i \in Vertices(gr) |-> [j \in Vertices(gr) |-> Mult(gr, <<j, i>>)]]

\* lines 51 and 57: is_spiking = (acc >= threshold)
Spiking(acc, threshold) == [v \in DOMAIN acc |-> acc[v] >= threshold]

Bit(b) == IF b THEN 1 ELSE 0

\* lines 52 and 59: charge_gain = A.dot(is_spiking)
ChargeGain(A, is_spiking) ==
    [v \in DOMAIN A |->
        SumTo([u \in DOMAIN A |-> A[v][u] * Bit(is_spiking[u])],
              Cardinality(DOMAIN A))]

\* lines 53 and 60: acc = acc - acc*is_spiking + charge_gain
UpdateKeepSpiking(acc, is_spiking, charge_gain) ==
    [v \in DOMAIN acc |-> acc[v] * Bit(is_spiking[v]) + charge_gain[v]]
Update(acc, is_spiking, charge_gain) ==
    [v \in DOMAIN acc |-> acc[v] - acc[v] * Bit(is_spiking[v]) + charge_gain[v]]

\* The state of simu_intandfire after line 41.  A is <<>> until lines 43-46
\* built it and <<operator>> after; is_spiking is <<>> while the name is
\* unbound and <<mask>> once a tick has assigned it; fires is <<>> until line
\* 55 allocates it.
IafCall(gr, threshold, tmax, trimsz, initial_charges) ==
    [pc |-> "build", g |-> gr, threshold |-> threshold, tmax |-> tmax,
     trimsz |-> trimsz, t |-> 0, acc |-> initial_charges, A |-> <<>>,
     is_spiking |-> <<>>, fires |-> <<>>, ret |-> -1]

\* lines 43-48.  For a graph without edges np.array(g.get_edgelist()) is an
\* empty array, zip(*edges) yields nothing, and the unpacking
\* par, child = zip(*edges) raises ValueError.
IafBuild ==
    /\ iaf.pc = "build"
    /\ IF ecount(iaf.g) = 0
       THEN iaf' = [iaf EXCEPT !.pc = "value_error"]
       ELSE iaf' = [iaf EXCEPT !.A = <<AdjacencyOperator(iaf.g)>>,
                              !.pc = "burn"]
    /\ UNCHANGED <<mn, drv, prn, wlk, sis>>

\* lines 50-53: one burn-in tick
IafBurn ==
    /\ iaf.pc = "burn"
    /\ iaf.t < iaf.trimsz
    /\ LET is_spiking == Spiking(iaf.acc, iaf.threshold)
           charge_gain == ChargeGain(iaf.A[1], is_spiking)
       IN  iaf' = [iaf EXCEPT !.is_spiking = <<is_spiking>>,
                              !.acc = Update(iaf.acc, is_spiking, charge_gain),
                              !.t = @ + 1]
    /\ UNCHANGED <<mn, drv, prn, wlk, sis>>

\* line 55: fires = np.zeros(n)
IafZero ==
    /\ iaf.pc = "burn"
    /\ iaf.t = iaf.trimsz
    /\ iaf' = [iaf EXCEPT !.fires = [v \in Vertices(iaf.g) |-> 0],
                          !.pc = "measure"]
    /\ UNCHANGED <<mn, drv, prn, wlk, sis>>

\* lines 56-60: one measured tick
IafTick ==
    /\ iaf.pc = "measure"
    /\ iaf.t < iaf.tmax
    /\ LET is_spiking == Spiking(iaf.acc, iaf.threshold)
           charge_gain == ChargeGain(iaf.A[1], is_spiking)
       IN  iaf' = [iaf EXCEPT !.is_spiking = <<is_spiking>>,
                              !.fires = [v \in Vertices(iaf.g) |->
                                            @[v] + Bit(is_spiking[v])],
                              !.acc = Update(iaf.acc, is_spiking, charge_gain),
                              !.t = @ + 1]
    /\ UNCHANGED <<mn, drv, prn, wlk, sis>>

\* line 62: return fires, np.sum(is_spiking); is_spiking is unbound when no
\* tick ran
IafReturn ==
    /\ iaf.pc = "measure"
    /\ iaf.t = iaf.tmax
    /\ IF iaf.is_spiking = <<>>
       THEN iaf' = [iaf EXCEPT !.pc = "name_error"]
       ELSE iaf' = [iaf EXCEPT
                       !.ret = SumTo([v \in Vertices(iaf.g) |->
                                         Bit(iaf.is_spiking[1][v])],
                                     vcount(iaf.g)),
                       !.pc = "returned"]
    /\ UNCHANGED <<mn, drv, prn, wlk, sis>>

InitIaf ==
    /\ \E gr \in SimGraphs, threshold \in 1 .. MaxThreshold, tmax \in 0 .. MaxTicks :
          \E trimsz \in 0 .. tmax,
             initial_charges \in [Vertices(gr) -> 0 .. ChargeEnd(threshold) - 1] :
              iaf = IafCall(gr, threshold, tmax, trimsz, initial_charges)
    /\ drv = DrvIdle
    /\ prn = PruneIdle
    /\ wlk = WalkIdle
    /\ sis = SisIdle
    /\ mn = MainIdle

IafNext == IafBuild \/ IafBurn \/ IafZero \/ IafTick \/ IafReturn

SpecIaf == InitIaf /\ [][IafNext]_vars

\* A step that is a tick of simu_intandfire (burn-in or measured).
IsIafTick == iaf'.t = iaf.t + 1

\* C10: in every tick, burn-in and measured, a vertex whose charge is below
\* the threshold at the start of the tick ends it with at least that charge,
\* and a vertex whose charge decreases in a tick spikes in that tick.
C10_ChargeMonotone ==
    [][IsIafTick =>
        \A v \in Vertices(iaf.g) :
            /\ iaf.acc[v] < iaf.threshold => iaf'.acc[v] >= iaf.acc[v]
            /\ iaf'.acc[v] < iaf.acc[v] =>
                  (iaf.acc[v] >= iaf.threshold /\ iaf'.is_spiking[1][v])]_vars

\* A tick in which a vertex below the threshold, holding charge, received
\* the charge of a spiking in-neighbour, and another in which a vertex lost
\* its charge by spiking.
C10_Witness ==
    /\ iaf.t >= 2
    /\ iaf.pc = "measure"
    /\ iaf.trimsz >= 1
    /\ iaf.trimsz < iaf.t
    /\ \E u, v \in Vertices(iaf.g) :
          /\ iaf.is_spiking[1][u]
          /\ ~iaf.is_spiking[1][v]
          /\ Mult(iaf.g, <<u, v>>) > 0
          /\ iaf.acc[v] >= 2

----------------------------------------------------------------------------
(* run_experiment from its first line to its end *)

\* The arguments nbatches and batchsz of the whole runs.
RunBatches == {0, 2}
RunBatchSz == {0, 1}

InitRun ==
    /\ \E nb \in RunBatches, bs \in RunBatchSz : drv = DrvStart(nb, bs)
    /\ prn = PruneIdle
    /\ wlk = WalkIdle
    /\ sis = SisIdle
    /\ iaf = IafIdle
    /\ mn = MainIdle

NextRun == GenNext \/ Next

\* run_experiment is sequential code: while a step is possible, one is taken.
SpecRun == InitRun /\ [][NextRun]_vars /\ WF_vars(NextRun)

\* The run has returned or raised.
RunEnded == drv.pc \in {"done", "gen_error", "config_error", "prune_error"}

\* The counters of the three loops stay within their limits: the generation
\* loop within the budget line 227 enforces, a remove_arc_conn call within
\* the ecount candidates of its input, the outer loop within nbatches
\* iterations and the inner one within batchsz calls.
RunBounded ==
    /\ drv.tries <= maxtries + 1
    /\ drv.ngen <= maxtries + 2
    /\ prn.pos <= ecount(prn.g)
    /\ (prn.pc \in {"loop", "returned"} => prn.pos < prn.ntries)
    /\ prn.ntries <= ecount(prn.g) + 1
    /\ (prn.pc = "returned" => prn.ntries <= ecount(prn.g))
    /\ drv.i <= drv.nbatches
    /\ drv.k <= drv.batchsz
    /\ Len(drv.snaps) <= drv.nbatches + 1

\* The largest number of edges of a graph the run prunes.
EdgeLimit ==
    CHOOSE m \in 0 .. 2 * 3 * 3 :
        /\ \A gr \in GenOutputs : ecount(to_directed(gr)) <= m
        /\ \E gr \in GenOutputs : ecount(to_directed(gr)) = m

\* A limit of the number of steps one call of the inner loop takes: the call,
\* the shuffle, at most EdgeLimit candidates, the raise, the return.
CallSteps == EdgeLimit + 5

\* A limit of the number of steps left in the current remove_arc_conn call.
PruneSteps ==
    CASE prn.pc = "shuffle" -> ecount(prn.g) + 2
      [] prn.pc = "loop" -> ecount(prn.g) - prn.pos + 1
      [] OTHER -> 0

\* A limit of the number of steps left once the measurement of batch index b
\* is done: the remaining iterations of the outer loop, each with batchsz
\* calls, the end of the inner loop and a measurement, and the save.
StepsAfter(b) == (drv.nbatches - b) * (drv.batchsz * CallSteps + 2) + 1

\* A limit of the number of steps left in the run.
RunSteps ==
    CASE drv.pc = "generating" ->
            (maxtries + 2 - drv.ngen) + 3 + StepsAfter(0)
      [] drv.pc = "loop_exit" -> 3 + StepsAfter(0)
      [] drv.pc = "generated" -> 2 + StepsAfter(0)
      [] drv.pc = "measure" -> 1 + StepsAfter(drv.i)
      [] drv.pc = "batch" ->
            (drv.batchsz - drv.k) * CallSteps + 2 + StepsAfter(drv.i + 1)
      [] drv.pc = "pruning" ->
            PruneSteps + 1 + (drv.batchsz - drv.k - 1) * CallSteps + 2
               + StepsAfter(drv.i + 1)
      [] drv.pc = "save" -> 1
      [] OTHER -> 0

\* A step of the run is possible.  Inside the for loop of remove_arc_conn
\* this is the disjunction of the guards of PruneTry and PruneRaise, whose
\* bodies assign in every case.
RunCanStep ==
    IF drv.pc = "pruning" /\ prn.pc = "loop"
    THEN prn.pos < Len(prn.edgeids) \/ prn.pos = Len(prn.edgeids)
    ELSE ENABLED NextRun

----------------------------------------------------------------------------
(* main, lines 375-406 *)

\* The values of cfg.seed.
Seeds == {0, 10}

\* line 382
seeds(seed, nrealizations) == [i \in 0 .. nrealizations - 1 |-> seed + i]

\* lines 282-289: the rows run_experiment returns, one for each batch index
\* in order.  The run seeds both generators with its seed (line 221), so its
\* rows are a function of its parameters; of a row the model keeps the
\* columns realiz and epoch.
Corrs(seed, nbatches) ==
    [j \in 1 .. nbatches + 1 |-> [realiz |-> seed, epoch |-> j - 1]]

\* line 396: pool.map returns the results in the order of the tasks, whatever
\* the order in which the workers finished them.  outs maps a task index to
\* its result, order lists the task indices as they finished.
MapResultAsFinished(outs, order) == [q \in DOMAIN order |-> outs[order[q]]]
MapResult(outs, order) == [q \in 1 .. Len(order) |-> outs[q - 1]]

\* lines 398-402: the rows of corrs[i][j], i outermost
RECURSIVE Flatten(_)
Flatten(corrs) ==
    IF corrs = <<>> THEN <<>> ELSE Head(corrs) \o Flatten(Tail(corrs))

\* The state of main after line 389.  raising is the set of realizations whose
\* run_experiment raises; running maps a worker of the pool to the task it
\* runs (-1: none); next is the next task to hand out; outs, order as for
\* MapResult.
MainCall(seed, nrealizations, nbatches, nprocs, raising) ==
    [pc |-> "run", seed |-> seed, nrealizations |-> nrealizations,
     nbatches |-> nbatches, nprocs |-> nprocs, raising |-> raising,
     running |-> [w \in 1 .. nprocs |-> -1], next |-> 0,
     outs |-> <<>>, order |-> <<>>, corrs |-> <<>>, data |-> <<>>]

\* line 392: the next run_experiment_lst(p) of the list comprehension
SerialRun ==
    /\ mn.pc = "run"
    /\ mn.nprocs = 1
    /\ Len(mn.corrs) < mn.nrealizations
    /\ LET i == Len(mn.corrs)
       IN  IF i \in mn.raising
           THEN mn' = [mn EXCEPT !.pc = "error"]
           ELSE mn' = [mn EXCEPT
                          !.corrs = Append(@, Corrs(seeds(mn.seed, mn.nrealizations)[i],
                                                   mn.nbatches))]
    /\ UNCHANGED <<drv, prn, wlk, sis, iaf>>

\* line 392: the list is complete
SerialDone ==
    /\ mn.pc = "run"
    /\ mn.nprocs = 1
    /\ Len(mn.corrs) = mn.nrealizations
    /\ mn' = [mn EXCEPT !.pc = "merge"]
    /\ UNCHANGED <<drv, prn, wlk, sis, iaf>>

\* line 396: an idle worker of the pool takes the next task
PoolTake ==
    /\ mn.pc = "run"
    /\ mn.nprocs # 1
    /\ mn.next < mn.nrealizations
    /\ \E w \in 1 .. mn.nprocs :
          /\ mn.running[w] = -1
          /\ mn' = [mn EXCEPT !.running[w] = mn.next, !.next = @ + 1]
    /\ UNCHANGED <<drv, prn, wlk, sis, iaf>>

\* line 396: a worker finishes its task, with the rows or with the exception
\* of its run_experiment
PoolFinish ==
    /\ mn.pc = "run"
    /\ mn.nprocs # 1
    /\ \E w \in 1 .. mn.nprocs :
          /\ mn.running[w] # -1
          /\ LET i == mn.running[w]
                 out == IF i \in mn.raising THEN <<>>
                        ELSE Corrs(seeds(mn.seed, mn.nrealizations)[i],
                                   mn.nbatches)
             IN  mn' = [mn EXCEPT !.running[w] = -1,
                                  !.outs = (i :> out) @@ @,
                                  !.order = Append(@, i)]
    /\ UNCHANGED <<drv, prn, wlk, sis, iaf>>

\* line 396: pool.map returns once every task is finished, and raises if one
\* of them raised
PoolMapReturn ==
    /\ mn.pc = "run"
    /\ mn.nprocs # 1
    /\ Len(mn.order) = mn.nrealizations
    /\ IF mn.raising # {}
       THEN mn' = [mn EXCEPT !.pc = "error"]
       ELSE mn' = [mn EXCEPT !.corrs = MapResult(mn.outs, mn.order),
                             !.pc = "merge"]
    /\ UNCHANGED <<drv, prn, wlk, sis, iaf>>

\* lines 398-402
Merge ==
    /\ mn.pc = "merge"
    /\ mn' = [mn EXCEPT !.data = Flatten(mn.corrs), !.pc = "merged"]
    /\ UNCHANGED <<drv, prn, wlk, sis, iaf>>

InitMain ==
    /\ \E seed \in Seeds, nrealizations \in 0 .. MaxRealizations,
          nbatches \in 0 .. MaxBatches, nprocs \in 1 .. MaxProcs :
          \E raising \in SUBSET (0 .. nrealizations - 1) :
              mn = MainCall(seed, nrealizations, nbatches, nprocs, raising)
    /\ drv = DrvIdle
    /\ prn = PruneIdle
    /\ wlk = WalkIdle
    /\ sis = SisIdle
    /\ iaf = IafIdle

MainNext ==
    SerialRun \/ SerialDone \/ PoolTake \/ PoolFinish \/ PoolMapReturn \/ Merge

SpecMain == InitMain /\ [][MainNext]_vars

\* C13: when main has merged the results, the row of realization i and batch
\* j is at position i * (nbatches + 1) + j, with seed cfg.seed + i and batch
\* index j, for one worker as for several and whatever the order in which the
\* workers finished.
C13_MergedOrder ==
    mn.pc = "merged" =>
        /\ Len(mn.data) = mn.nrealizations * (mn.nbatches + 1)
        /\ \A i \in 0 .. mn.nrealizations - 1, j \in 0 .. mn.nbatches :
              LET row == mn.data[i * (mn.nbatches + 1) + j + 1]
              IN  /\ row.realiz = mn.seed + i
                  /\ row.epoch = j

\* Several workers, and the last task finished first.
C13_Witness ==
    /\ mn.pc = "merged"
    /\ mn.nprocs >= 2
    /\ mn.nrealizations >= 3
    /\ mn.nbatches >= 1
    /\ mn.order[1] > mn.order[2]

----------------------------------------------------------------------------
(* The tick and the adjacency operator of simu_intandfire *)

\* The number of edges into v, counted with multiplicity, whose source holds
\* at least the threshold.
SpikingInEdges(gr, acc, threshold, v) ==
    Cardinality({j \in DOMAIN gr.es :
                    gr.es[j][2] = v /\ acc[gr.es[j][1]] >= threshold})

\* C15: every tick is synchronous: the new charge of v is 0 if v held at
\* least the threshold before the tick, and its charge before the tick
\* otherwise, plus the number of edges u -> v, with multiplicity, whose source
\* u held at least the threshold before the tick.
C15_SynchronousTick ==
    [][IsIafTick =>
        \A v \in Vertices(iaf.g) :
            iaf'.acc[v]
               = (IF iaf.acc[v] >= iaf.threshold THEN 0 ELSE iaf.acc[v])
                 + SpikingInEdges(iaf.g, iaf.acc, iaf.threshold, v)]_vars

\* After a tick on the one-way 3-cycle, vertex 0 spiked alone and only its
\* successor 1 holds charge: the reset came before the gain and the gain went
\* from source to target.
C15_Witness ==
    /\ iaf.g = Cycle(3)
    /\ iaf.t = 2
    /\ iaf.is_spiking = <<[v \in 0 .. 2 |-> v = 0]>>
    /\ iaf.acc = [v \in 0 .. 2 |-> IF v = 1 THEN 1 ELSE 0]

\* C18: building the incoming-adjacency operator never fails: for a graph
\* without edges the operator is the zero operator and every tick has zero
\* gain, so the charges never change.
C18_AsStated ==
    ecount(iaf.g) = 0 =>
        /\ iaf.pc # "value_error"
        /\ iaf.A # <<>> =>
              \A i \in Vertices(iaf.g), j \in Vertices(iaf.g) : iaf.A[1][i][j] = 0

----------------------------------------------------------------------------
(* The steps of the walk and the result of simu_sis *)

\* C20: every step of the walk follows a directed edge of the graph the walk
\* was started on: for consecutive entries u, v of the walk array the graph
\* has an edge u -> v.
C20_WalkFollowsEdges ==
    wlk.pc \in {"walking", "done", "error"} =>
        \A p \in 1 .. Len(wlk.walk) - 1 :
            \E j \in DOMAIN wlk.g.es :
                wlk.g.es[j] = <<wlk.walk[p], wlk.walk[p + 1]>>

\* A finished walk of three steps or more on a graph in which some ordered
\* pairs of vertices are not edges.
C20_Witness ==
    /\ wlk.pc = "done"
    /\ Len(wlk.walk) >= 4
    /\ ecount(wlk.g) <= 3
    /\ \E p \in 1 .. Len(wlk.walk) - 1 :
          Mult(wlk.g, <<wlk.walk[p + 1], wlk.walk[p]>>) = 0

\* C19: simu_sis never fails: for every 0 <= trimsz <= tmax, trimsz = tmax
\* included, it returns, with a count for each of the n vertices and the total
\* of the new infections of the last tick executed.
C19_AsStated ==
    /\ sis.pc # "name_error"
    /\ sis.pc = "returned" =>
          /\ DOMAIN sis.ninfec = Vertices(sis.g)
          /\ sis.ret = SumTo(sis.newinf[1], vcount(sis.g))

----------------------------------------------------------------------------
(* The returned candidate of remove_arc_conn *)

\* C14: when remove_arc_conn returns (newg, ntries), the removed edge is the
\* candidate at position ntries (counting from 1) of the shuffled order,
\* removing any of the ntries - 1 candidates before it leaves a graph that is
\* not strongly connected, and newg is the input graph without exactly that
\* one edge occurrence.
C14_ReturnedCandidate ==
    prn.pc = "returned" =>
        /\ prn.ntries \in 1 .. ecount(prn.g)
        /\ LET eid == prn.edgeids[prn.ntries]
               e0  == prn.g.es[eid + 1]
           IN  /\ vcount(prn.newg) = vcount(prn.g)
               /\ ecount(prn.newg) = ecount(prn.g) - 1
               /\ \A e \in EdgeSet(prn.g) \cup EdgeSet(prn.newg) :
                     Mult(prn.newg, e)
                        = Mult(prn.g, e) - (IF e = e0 THEN 1 ELSE 0)
        /\ \A j \in 1 .. prn.ntries - 1 :
              ~StronglyConnected(delete_edges(prn.g, prn.edgeids[j]))

C14_Witness ==
    /\ prn.pc = "returned"
    /\ prn.ntries >= 3
    /\ ecount(prn.g) > prn.ntries

----------------------------------------------------------------------------
(* The driver's claims *)

\* C1: every graph snapshot the three simulators are run on, at batch index
\* 0 through nbatches, is strongly connected, whatever edges the pruner chose.
C1_SnapshotsStronglyConnected ==
    /\ \A j \in DOMAIN drv.snaps : StronglyConnected(drv.snaps[j])
    /\ drv.pc = "measure" => StronglyConnected(drv.g)

C1_Witness ==
    /\ drv.pc = "done"
    /\ drv.nbatches >= 2
    /\ Len(drv.snaps) = drv.nbatches + 1
    /\ ecount(drv.snaps[Len(drv.snaps)]) < ecount(drv.snaps[1])

\* nbatches * batchsz exceeds 75% of the edge count of the graph.
ExceedsThreeQuarters(nb, bs, gr) == 100 * (nb * bs) > 75 * ecount(gr)

\* C4: once initial_check has run, if nbatches * batchsz exceeds 75% of the
\* edge count of the graph handed to it the run has ended in the
\* configuration error with no simulator run and no edge removed; if it does
\* not (equality included) and the graph is strongly connected, the run has
\* not ended in the configuration error.
C4_ConfigurationCheck ==
    drv.pc \notin {"generating", "loop_exit", "generated"} =>
        /\ ExceedsThreeQuarters(drv.nbatches, drv.batchsz, drv.gorig) =>
              /\ drv.pc = "config_error"
              /\ drv.snaps = <<>>
              /\ drv.g = NoGraph
              /\ prn = PruneIdle
              /\ \A j \in 1 .. drv.nbatches : drv.nattempts[j] = 0
              /\ ~drv.saved
        /\ (/\ ~ExceedsThreeQuarters(drv.nbatches, drv.batchsz, drv.gorig)
            /\ StronglyConnected(drv.gorig)) =>
              drv.pc # "config_error"

C4_Witness ==
    /\ drv.pc = "config_error"
    /\ ExceedsThreeQuarters(drv.nbatches, drv.batchsz, drv.gorig)
    /\ drv.snaps = <<>>

\* C5 as stated: the generation loop calls generate_data at most maxtries
\* (100) times; it raises exactly when none of the first maxtries calls gave a
\* strongly connected graph; a strongly connected graph given by one of the
\* first maxtries calls is accepted.
C5_AsStated ==
    /\ drv.ngen <= maxtries
    /\ drv.pc = "gen_error" => drv.ngen >= maxtries
    /\ (drv.ngen >= maxtries /\ ~drv.stronglyconn) => drv.pc = "gen_error"
    /\ (drv.ngen <= maxtries /\ drv.ngen > 0 /\ drv.stronglyconn) =>
          drv.pc \in {"loop_exit", "generated"}

\* C11: with batchsz = 0 no edge is removed in any batch: every measured
\* graph has the edge list of the batch-0 graph, every recorded degree vector
\* equals the batch-0 one, and nattempts[1..nbatches] stay 0.
C11_ZeroBatchSizeNoRemoval ==
    (drv.batchsz = 0 /\ drv.pc \notin {"generating", "loop_exit", "generated"}) =>
        /\ prn = PruneIdle
        /\ drv.g = drv.gorig
        /\ \A j \in DOMAIN drv.snaps :
              /\ drv.snaps[j] = drv.snaps[1]
              /\ drv.degrees[j - 1] = drv.degrees[0]
              /\ drv.degrees[j - 1] = degree(drv.gorig, drv.degmode)
        /\ \A j \in 1 .. drv.nbatches : drv.nattempts[j] = 0
        /\ drv.pc \notin {"prune_error", "config_error"}

C11_Witness ==
    /\ drv.batchsz = 0
    /\ drv.nbatches >= 2
    /\ drv.pc = "done"
    /\ Len(drv.snaps) = drv.nbatches + 1
    /\ drv.degmode = "in"

\* C12: when a remove_arc_conn call of a batch fails, also after earlier
\* removals of that batch succeeded, the run ends in the error naming the step
\* index i: no simulator has run on the partially pruned graph, nothing is
\* recorded for batch i+1, none of the arrays is saved, and the run does
\* nothing more.
C12_PruneFailureAborts ==
    drv.pc = "prune_error" =>
        /\ drv.errstep = drv.i
        /\ Len(drv.snaps) = drv.i + 1
        /\ drv.k > 0 => \A j \in DOMAIN drv.snaps : drv.snaps[j] # drv.g
        /\ \A v \in Vertices(drv.g) : drv.degrees[drv.i + 1][v] = 0
        /\ ~drv.saved
        /\ ~ENABLED Next

C12_Witness ==
    /\ drv.pc = "prune_error"
    /\ drv.k >= 1
    /\ drv.i >= 1

\* C16: in a run that completes, nbatches + 1 measurements were recorded in
\* the order of the batch index, the first on the initial graph, and the graph
\* measured at batch index i has the initial edge count minus i * batchsz
\* edges, all of them edges of the graph measured at batch index i - 1.
C16_MeasurementsPerBatch ==
    drv.pc = "done" =>
        /\ Len(drv.snaps) = drv.nbatches + 1
        /\ drv.snaps[1] = drv.gorig
        /\ \A b \in 0 .. drv.nbatches :
              /\ ecount(drv.snaps[b + 1]) = ecount(drv.gorig) - b * drv.batchsz
              /\ drv.degrees[b] = degree(drv.snaps[b + 1], drv.degmode)
              /\ b > 0 =>
                    \A e \in EdgeSet(drv.snaps[b + 1]) :
                        Mult(drv.snaps[b + 1], e) <= Mult(drv.snaps[b], e)

C16_Witness ==
    /\ drv.pc = "done"
    /\ drv.nbatches >= 2
    /\ drv.batchsz >= 1
    /\ ecount(drv.g) < ecount(drv.gorig)

====
